---------------------------- MODULE Spec2Model ----------------------------
(***************************************************************************)
(* Model of DisplayProperties (src/src/properties.rs): the address/window  *)
(* state of an SH1108 display controller and the operations that stream    *)
(* commands and pixel data to a write-only transport.                      *)
(*                                                                         *)
(* The struct's fields are the variables of the same name.  The transport  *)
(* (iface) records every write of the operation in progress and fails once *)
(* its budget of successful writes is used up.  Every straight-line        *)
(* operation is one action; draw, whose loop need not end, is one action   *)
(* per loop iteration.  A panic (slice index out of range) halts the       *)
(* program: pc = "panicked" has no successor.                              *)
(***************************************************************************)
EXTENDS Integers, Sequences, FiniteSets, TLC

VARIABLES
    display_size,      \* properties.rs:10
    display_rotation,  \* properties.rs:11
    draw_area_start,   \* properties.rs:12  <<col, row>>
    draw_area_end,     \* properties.rs:13  <<col, row>>
    draw_column,       \* properties.rs:14
    draw_row,          \* properties.rs:15
    iface,             \* properties.rs:9   the transport: [log, reliable, fuel, err]
    buffer,            \* properties.rs:80  draw's `buffer`, the part not yet sent
    pc,                \* "idle" | "draw" | "panicked"
    result,            \* "ok" | "err": how `op` returned; "pending" while it runs
    got,               \* what the last accessor returned
    op,                \* the operation in progress or last completed, with its arguments
    entry              \* the struct's fields when `op` was called

vars == <<display_size, display_rotation, draw_area_start, draw_area_end,
          draw_column, draw_row, iface, buffer, pc, result, got, op, entry>>

-----------------------------------------------------------------------------
(* Bounds of the model *)

\* longest buffer handed to draw
MaxLen == 4
\* the transport may be set to fail on its 1st .. MaxFail-th write of an operation
MaxFail == 5

\* the log keeps the first MaxTrace writes of an operation; only a draw that
\* never ends writes more
MaxTrace == 4 * MaxLen + 6

U8 == 256

\* coordinates a caller passes, the largest u8 among them: windows 1, 2 and
\* more columns wide and 1, 2 and 3 rows high, some ending at 255
ColChoices == {0, 2, 254, 255}
RowChoices == {252, 253, 255}
ContrastChoices == {0, 255}
Rotations == {"Rotate0", "Rotate90", "Rotate180", "Rotate270"}
DisplaySizes == {"Display128x160", "Display96x160"}

\* the buffers handed to draw: bytes 0, 1, .., n-1
Buffers == {[i \in 1..n |-> i - 1] : n \in 0..MaxLen}
\* the transports an operation may meet: one that never fails, or one that
\* accepts `fuel` < n writes and fails the next
Transports(n) ==
    {[log |-> <<>>, reliable |-> TRUE, fuel |-> 0, err |-> FALSE]}
    \cup {[log |-> <<>>, reliable |-> FALSE, fuel |-> f, err |-> FALSE] : f \in 0..(n - 1)}

\* the (start, end) pairs a caller may pass: start < end on both axes
Windows == {w \in (ColChoices \X RowChoices) \X (ColChoices \X RowChoices) :
              w[1][1] < w[2][1] /\ w[1][2] < w[2][2]}

-----------------------------------------------------------------------------
(* u8 arithmetic *)

SubU8(a, b) == (a - b + U8) % U8
AddU8(a, b) == (a + b) % U8
\* a & 0xF
LowNibble(a) == a % 16
\* a >> 4
Shr4(a) == a \div 16

Bit(b) == IF b THEN 1 ELSE 0

-----------------------------------------------------------------------------
(* DisplaySize::dimensions *)

dimensions(size) ==
    CASE size = "Display128x160" -> <<128, 160>>
      [] size = "Display96x160"  -> <<96, 160>>

-----------------------------------------------------------------------------
(* The writes the transport accepts: a command of crate::command::Command, *)
(* or a data write.  args are the command's parameters (booleans as 0/1),  *)
(* or the bytes of a data write.                                           *)

Cmd(name, args) == [kind |-> "cmd", name |-> name, args |-> args]

DisplayClockDiv(a, b)  == Cmd("DisplayClockDiv", <<a, b>>)
DisplayResolution(sz)  == Cmd("DisplayResolution", dimensions(sz))
PreChargePeriod(a, b)  == Cmd("PreChargePeriod", <<a, b>>)
DisplayOnCmd(on)       == Cmd("DisplayOn", <<Bit(on)>>)
PageAddress(r)         == Cmd("PageAddress", <<r>>)
ColumnAddressLow(n)    == Cmd("ColumnAddressLow", <<n>>)
ColumnAddressHigh(n)   == Cmd("ColumnAddressHigh", <<n>>)
SegmentRemap(b)        == Cmd("SegmentRemap", <<Bit(b)>>)
SetCommonScanDir(b)    == Cmd("SetCommonScanDir", <<Bit(b)>>)
Contrast(c)            == Cmd("Contrast", <<c>>)
Data(bytes)            == [kind |-> "data", name |-> "U8", args |-> bytes]

\* a logged write: the write and whether the transport accepted it
Logged(w, ok) == [kind |-> w.kind, name |-> w.name, args |-> w.args, ok |-> ok]

Log(log, w, ok) == IF Len(log) < MaxTrace THEN Append(log, Logged(w, ok)) ELSE log

\* one write: Command::send / send_data
Send(io, w) ==
    IF ~io.reliable /\ io.fuel = 0
    THEN [io EXCEPT !.log = Log(@, w, FALSE), !.err = TRUE]
    ELSE [io EXCEPT !.log = Log(@, w, TRUE),
                    !.fuel = IF io.reliable THEN 0 ELSE @ - 1]

\* a write that is made whether or not an earlier one failed
Try_unchecked(io, w) == Send(io, w)

\* `.await?` after earlier `.await?`s: the write happens only if none before it failed
Try(io, w) == IF io.err THEN io ELSE Send(io, w)

Res(io) == IF io.err THEN "err" ELSE "ok"

-----------------------------------------------------------------------------
(* The struct and its methods, as functions of the struct's value `self`   *)
(* and the transport `io`.                                                 *)

Self == [display_size     |-> display_size,
         display_rotation |-> display_rotation,
         draw_area_start  |-> draw_area_start,
         draw_area_end    |-> draw_area_end,
         draw_column      |-> draw_column,
         draw_row         |-> draw_row]

\* DisplayProperties::new
new(size, rotation) ==
    [display_size     |-> size,
     display_rotation |-> rotation,
     draw_area_start  |-> <<0, 0>>,
     draw_area_end    |-> <<0, 0>>,
     draw_column      |-> 0,
     draw_row         |-> 0]

\* send_draw_address with the column's nibbles exchanged
send_draw_address_swapped(self, io) ==
    LET io1 == Try(io,  PageAddress(self.draw_row))
        io2 == Try(io1, ColumnAddressLow(LowNibble(Shr4(self.draw_column))))
    IN  Try(io2, ColumnAddressHigh(LowNibble(self.draw_column)))

\* send_draw_address without its last command
send_draw_address_no_high(self, io) ==
    LET io1 == Try(io,  PageAddress(self.draw_row))
    IN  Try(io1, ColumnAddressLow(LowNibble(self.draw_column)))

send_draw_address(self, io) ==
    LET io1 == Try(io,  PageAddress(self.draw_row))
        io2 == Try(io1, ColumnAddressLow(LowNibble(self.draw_column)))
    IN  Try(io2, ColumnAddressHigh(LowNibble(Shr4(self.draw_column))))

\* set_draw_area that leaves the cursor where it was
set_draw_area_keep_cursor(self, io, start, end) ==
    LET s == [self EXCEPT !.draw_area_start = start,
                          !.draw_area_end   = end]
    IN  [self |-> s, io |-> send_draw_address(s, io)]

set_draw_area(self, io, start, end) ==
    LET s == [self EXCEPT !.draw_area_start = start,
                          !.draw_area_end   = end,
                          !.draw_column     = start[1],
                          !.draw_row        = start[2]]
    IN  [self |-> s, io |-> send_draw_address(s, io)]

\* the match of set_rotation with the arms of Rotate90 and Rotate270 exchanged
RemapWrites_swapped(io, rotation) ==
    CASE rotation = "Rotate0" ->
            Try(Try(io, SegmentRemap(FALSE)), SetCommonScanDir(FALSE))
      [] rotation = "Rotate270" ->
            Try(Try(io, SegmentRemap(FALSE)), SetCommonScanDir(TRUE))
      [] rotation = "Rotate180" ->
            Try(Try(io, SegmentRemap(TRUE)), SetCommonScanDir(TRUE))
      [] rotation = "Rotate90" ->
            Try(Try(io, SegmentRemap(TRUE)), SetCommonScanDir(FALSE))

\* the match of set_rotation: the two remap commands of a rotation
RemapWrites(io, rotation) ==
    CASE rotation = "Rotate0" ->
            Try(Try(io, SegmentRemap(FALSE)), SetCommonScanDir(FALSE))
      [] rotation = "Rotate90" ->
            Try(Try(io, SegmentRemap(FALSE)), SetCommonScanDir(TRUE))
      [] rotation = "Rotate180" ->
            Try(Try(io, SegmentRemap(TRUE)), SetCommonScanDir(TRUE))
      [] rotation = "Rotate270" ->
            Try(Try(io, SegmentRemap(TRUE)), SetCommonScanDir(FALSE))

\* set_rotation that stores the rotation only once both writes were accepted
set_rotation_store_last(self, io, rotation) ==
    LET io2 == RemapWrites(io, rotation)
    IN  [self |-> IF io2.err THEN self ELSE [self EXCEPT !.display_rotation = rotation],
         io   |-> io2]

set_rotation(self, io, rotation) ==
    [self |-> [self EXCEPT !.display_rotation = rotation],
     io   |-> RemapWrites(io, rotation)]

\* init_column_mode that applies the default rotation instead of the configured one
init_column_mode_default_rotation(self, io) ==
    LET io1 == Try(io,  DisplayClockDiv(6, 0))
        io2 == Try(io1, DisplayResolution(self.display_size))
        r   == IF io2.err THEN [self |-> self, io |-> io2]
                          ELSE set_rotation(self, io2, "Rotate0")
        io3 == Try(r.io, PreChargePeriod(8, 2))
        io4 == Try(io3,  DisplayOnCmd(TRUE))
    IN  [self |-> r.self, io |-> io4]

\* init_column_mode with the pre-charge period set before the rotation
init_column_mode_precharge_first(self, io) ==
    LET rotation == self.display_rotation
        io1 == Try(io,  DisplayClockDiv(6, 0))
        io2 == Try(io1, DisplayResolution(self.display_size))
        io3 == Try(io2, PreChargePeriod(8, 2))
        r   == IF io3.err THEN [self |-> self, io |-> io3]
                          ELSE set_rotation(self, io3, rotation)
        io4 == Try(r.io, DisplayOnCmd(TRUE))
    IN  [self |-> r.self, io |-> io4]

init_column_mode(self, io) ==
    LET rotation == self.display_rotation
        io1 == Try(io,  DisplayClockDiv(6, 0))
        io2 == Try(io1, DisplayResolution(self.display_size))
        r   == IF io2.err THEN [self |-> self, io |-> io2]
                          ELSE set_rotation(self, io2, rotation)
        io3 == Try(r.io, PreChargePeriod(8, 2))
        io4 == Try(io3,  DisplayOnCmd(TRUE))
    IN  [self |-> r.self, io |-> io4]

\* display_on that always turns the display on
display_on_always(self, io, on) == [self |-> self, io |-> Try(io, DisplayOnCmd(TRUE))]

display_on(self, io, on) == [self |-> self, io |-> Try(io, DisplayOnCmd(on))]

set_contrast(self, io, contrast) == [self |-> self, io |-> Try(io, Contrast(contrast))]

get_size(self) == self.display_size

\* get_dimensions that swaps for every rotation but Rotate0
get_dimensions_swap180(self) ==
    LET w == dimensions(self.display_size)[1]
        h == dimensions(self.display_size)[2]
    IN  CASE self.display_rotation \in {"Rotate0"} -> <<w, h>>
          [] self.display_rotation \in {"Rotate90", "Rotate180", "Rotate270"} -> <<h, w>>

get_dimensions(self) ==
    LET w == dimensions(self.display_size)[1]
        h == dimensions(self.display_size)[2]
    IN  CASE self.display_rotation \in {"Rotate0", "Rotate180"} -> <<w, h>>
          [] self.display_rotation \in {"Rotate90", "Rotate270"} -> <<h, w>>

get_rotation(self) == self.display_rotation

\* the wrap of draw without the row's wrap
draw_wrap_no_row_wrap(self, io) ==
    IF self.draw_column >= self.draw_area_end[1]
    THEN LET s == [self EXCEPT
                      !.draw_column = self.draw_area_start[1],
                      !.draw_row    = AddU8(self.draw_row, 1)]
         IN  [self |-> s, io |-> send_draw_address(s, io)]
    ELSE [self |-> self, io |-> io]

\* the wrap of draw that lets the window grow by a row instead of wrapping
draw_wrap_grow(self, io) ==
    IF self.draw_column >= self.draw_area_end[1]
    THEN LET row == AddU8(self.draw_row, 1)
             s   == [self EXCEPT
                        !.draw_column = self.draw_area_start[1],
                        !.draw_row    = row,
                        !.draw_area_end = IF row >= self.draw_area_end[2]
                                          THEN <<@[1], AddU8(row, 1)>>
                                          ELSE @]
         IN  [self |-> s, io |-> send_draw_address(s, io)]
    ELSE [self |-> self, io |-> io]

\* the wrap of draw with `>` for the column's `>=`
draw_wrap_col_gt(self, io) ==
    IF self.draw_column > self.draw_area_end[1]
    THEN LET row == AddU8(self.draw_row, 1)
             s   == [self EXCEPT
                        !.draw_column = self.draw_area_start[1],
                        !.draw_row    = IF row >= self.draw_area_end[2]
                                        THEN self.draw_area_start[2]
                                        ELSE row]
         IN  [self |-> s, io |-> send_draw_address(s, io)]
    ELSE [self |-> self, io |-> io]

\* the wrap of draw (properties.rs:88-97), entered with the column already advanced
draw_wrap(self, io) ==
    IF self.draw_column >= self.draw_area_end[1]
    THEN LET row == AddU8(self.draw_row, 1)
             s   == [self EXCEPT
                        !.draw_column = self.draw_area_start[1],
                        !.draw_row    = IF row >= self.draw_area_end[2]
                                        THEN self.draw_area_start[2]
                                        ELSE row]
         IN  [self |-> s, io |-> send_draw_address(s, io)]
    ELSE [self |-> self, io |-> io]

\* one iteration of draw's loop with the column advanced before the data write
draw_iter_advance_first(self, io, buf) ==
    LET count == SubU8(self.draw_area_end[1], self.draw_column)
    IN  IF count > Len(buf)
        THEN [self |-> self, io |-> io, buffer |-> buf, next |-> "panicked"]
        ELSE
          LET s1  == [self EXCEPT !.draw_column = AddU8(@, count)]
              io1 == Send(io, Data(SubSeq(buf, 1, count)))
              w   == draw_wrap(s1, io1)
          IN  IF io1.err
              THEN [self |-> s1, io |-> io1, buffer |-> buf, next |-> "idle"]
              ELSE IF w.io.err
              THEN [self |-> w.self, io |-> w.io, buffer |-> buf, next |-> "idle"]
              ELSE [self |-> w.self, io |-> w.io,
                    buffer |-> SubSeq(buf, count + 1, Len(buf)), next |-> "draw"]

\* one iteration of draw's loop whose row wraps on `>` for `>=`
draw_iter_row_gt(self, io, buf) ==
    LET count == SubU8(self.draw_area_end[1], self.draw_column)
    IN  IF count > Len(buf)
        THEN [self |-> self, io |-> io, buffer |-> buf, next |-> "panicked"]
        ELSE
          LET io1 == Send(io, Data(SubSeq(buf, 1, count)))
              row == AddU8(self.draw_row, 1)
              s2  == [self EXCEPT !.draw_column = self.draw_area_start[1],
                                  !.draw_row = IF row > self.draw_area_end[2]
                                               THEN self.draw_area_start[2] ELSE row]
              io2 == send_draw_address(s2, io1)
          IN  IF io1.err
              THEN [self |-> self, io |-> io1, buffer |-> buf, next |-> "idle"]
              ELSE IF io2.err
              THEN [self |-> s2, io |-> io2, buffer |-> buf, next |-> "idle"]
              ELSE [self |-> s2, io |-> io2,
                    buffer |-> SubSeq(buf, count + 1, Len(buf)), next |-> "draw"]

\* one iteration of draw's loop that measures the row along the rotated axis
\* when the display is turned a quarter
draw_iter_rotated(self, io, buf) ==
    LET count == IF self.display_rotation \in {"Rotate90", "Rotate270"}
                 THEN SubU8(self.draw_area_end[2], self.draw_row)
                 ELSE SubU8(self.draw_area_end[1], self.draw_column)
    IN  IF count > Len(buf)
        THEN [self |-> self, io |-> io, buffer |-> buf, next |-> "panicked"]
        ELSE
          LET io1 == Send(io, Data(SubSeq(buf, 1, count)))
              s1  == [self EXCEPT !.draw_column = AddU8(@, count)]
              w   == draw_wrap(s1, io1)
          IN  IF io1.err
              THEN [self |-> self, io |-> io1, buffer |-> buf, next |-> "idle"]
              ELSE IF w.io.err
              THEN [self |-> w.self, io |-> w.io, buffer |-> buf, next |-> "idle"]
              ELSE [self |-> w.self, io |-> w.io,
                    buffer |-> SubSeq(buf, count + 1, Len(buf)), next |-> "draw"]

\* one iteration of draw's loop (properties.rs:82-99) on a non-empty buffer.
\* next: "draw" (back to the loop's test), "idle" (returned an error) or
\* "panicked" (buffer[..count] is out of range)
draw_iter(self, io, buf) ==
    LET count == SubU8(self.draw_area_end[1], self.draw_column)
    IN  IF count > Len(buf)
        THEN [self |-> self, io |-> io, buffer |-> buf, next |-> "panicked"]
        ELSE
          LET io1 == Send(io, Data(SubSeq(buf, 1, count)))
              s1  == [self EXCEPT !.draw_column = AddU8(@, count)]
              w   == draw_wrap(s1, io1)
          IN  IF io1.err
              THEN [self |-> self, io |-> io1, buffer |-> buf, next |-> "idle"]
              ELSE IF w.io.err
              THEN [self |-> w.self, io |-> w.io, buffer |-> buf, next |-> "idle"]
              ELSE [self |-> w.self, io |-> w.io,
                    buffer |-> SubSeq(buf, count + 1, Len(buf)), next |-> "draw"]

\* draw run to its end (properties.rs:80-103): the loop is unrolled at most
\* `fuel` times.  status: "ok", "err", "panicked", or "running" when the loop has
\* not ended after `fuel` iterations
RECURSIVE draw_run(_, _, _, _)
draw_run(self, io, buf, fuel) ==
    IF buf = <<>> THEN [self |-> self, io |-> io, status |-> "ok"]
    ELSE IF fuel = 0 THEN [self |-> self, io |-> io, status |-> "running"]
    ELSE LET r == draw_iter(self, io, buf)
         IN  CASE r.next = "draw"     -> draw_run(r.self, r.io, r.buffer, fuel - 1)
               [] r.next = "idle"     -> [self |-> r.self, io |-> r.io, status |-> "err"]
               [] r.next = "panicked" -> [self |-> r.self, io |-> r.io, status |-> "panicked"]

\* an iteration that goes round consumes at least one byte or none at all, so
\* Len(buf) iterations decide whether draw ends
draw(self, io, buf) == draw_run(self, io, buf, Len(buf))

-----------------------------------------------------------------------------
(* The state machine *)

Store(self) ==
    /\ display_size'     = self.display_size
    /\ display_rotation' = self.display_rotation
    /\ draw_area_start'  = self.draw_area_start
    /\ draw_area_end'    = self.draw_area_end
    /\ draw_column'      = self.draw_column
    /\ draw_row'         = self.draw_row

\* a call of method `name` with argument `arg` on the idle struct
Call(name, arg) ==
    /\ pc = "idle"
    /\ op' = [name |-> name, arg |-> arg]
    /\ entry' = Self

\* a fallible straight-line method runs to its return
Return(r) ==
    /\ Store(r.self)
    /\ iface' = r.io
    /\ result' = Res(r.io)
    /\ got' = <<>>
    /\ UNCHANGED <<buffer, pc>>

Init ==
    /\ \E size \in DisplaySizes, rotation \in Rotations :
          LET self == new(size, rotation)
          IN  /\ display_size     = self.display_size
              /\ display_rotation = self.display_rotation
              /\ draw_area_start  = self.draw_area_start
              /\ draw_area_end    = self.draw_area_end
              /\ draw_column      = self.draw_column
              /\ draw_row         = self.draw_row
    /\ iface \in Transports(0)
    /\ buffer = <<>>
    /\ pc = "idle"
    /\ result = "ok"
    /\ got = <<>>
    /\ op = [name |-> "new", arg |-> <<>>]
    /\ entry = Self

InitColumnMode ==
    \E io \in Transports(6) :
        /\ Call("init_column_mode", <<>>)
        /\ Return(init_column_mode(Self, io))

SetDrawArea ==
    \E io \in Transports(3), w \in Windows :
        /\ Call("set_draw_area", w)
        /\ Return(set_draw_area(Self, io, w[1], w[2]))

SetRotation ==
    \E io \in Transports(2), r \in Rotations :
        /\ Call("set_rotation", r)
        /\ Return(set_rotation(Self, io, r))

DisplayOn ==
    \E io \in Transports(1), on \in BOOLEAN :
        /\ Call("display_on", on)
        /\ Return(display_on(Self, io, on))

SetContrast ==
    \E io \in Transports(1), c \in ContrastChoices :
        /\ Call("set_contrast", c)
        /\ Return(set_contrast(Self, io, c))

\* draw is called: control reaches the loop's test (properties.rs:80-81)
Draw ==
    \E io \in Transports(MaxFail), buf \in Buffers :
        /\ Call("draw", buf)
        /\ pc' = "draw"
        /\ buffer' = buf
        /\ iface' = io
        /\ result' = "pending"
        /\ got' = <<>>
        /\ UNCHANGED <<display_size, display_rotation, draw_area_start, draw_area_end,
                       draw_column, draw_row>>

\* the loop's body as a do-while: it runs before the buffer is tested
DrawIter_untested ==
    /\ pc = "draw"
    /\ LET r == draw_iter(Self, iface, buffer)
       IN  /\ Store(r.self)
           /\ iface' = r.io
           /\ buffer' = IF r.next = "idle" THEN <<>> ELSE r.buffer
           /\ pc' = r.next
           /\ result' = IF r.next = "idle" THEN "err" ELSE result
    /\ UNCHANGED <<got, op, entry>>

\* the loop's body runs once (properties.rs:81-100)
DrawIter ==
    /\ pc = "draw"
    /\ buffer # <<>>
    /\ LET r == draw_iter(Self, iface, buffer)
       IN  /\ Store(r.self)
           /\ iface' = r.io
           /\ buffer' = IF r.next = "idle" THEN <<>> ELSE r.buffer
           /\ pc' = r.next
           /\ result' = IF r.next = "idle" THEN "err" ELSE result
    /\ UNCHANGED <<got, op, entry>>

\* the buffer is empty: draw returns Ok(()) (properties.rs:81, 102)
DrawReturn ==
    /\ pc = "draw"
    /\ buffer = <<>>
    /\ pc' = "idle"
    /\ result' = "ok"
    /\ UNCHANGED <<display_size, display_rotation, draw_area_start, draw_area_end,
                   draw_column, draw_row, iface, buffer, got, op, entry>>

Accessor(name, value) ==
    /\ Call(name, <<>>)
    /\ got' = value
    /\ iface' \in Transports(0)
    /\ result' = "ok"
    /\ UNCHANGED <<display_size, display_rotation, draw_area_start, draw_area_end,
                   draw_column, draw_row, buffer, pc>>

GetSize == Accessor("get_size", get_size(Self))

GetDimensions == Accessor("get_dimensions", get_dimensions(Self))

GetRotation == Accessor("get_rotation", get_rotation(Self))

Next ==
    \/ InitColumnMode
    \/ SetDrawArea
    \/ SetRotation
    \/ DisplayOn
    \/ SetContrast
    \/ Draw
    \/ DrawIter
    \/ DrawReturn
    \/ GetSize
    \/ GetDimensions
    \/ GetRotation

Spec == Init /\ [][Next]_vars

\* a draw that was called runs on: the caller awaits the future it got
FairSpec == Spec /\ WF_vars(DrawIter) /\ WF_vars(DrawReturn)

-----------------------------------------------------------------------------
(* Vocabulary of the properties *)

\* a window as set_draw_area's callers must give it
Valid(s) == /\ s.draw_area_start[1] < s.draw_area_end[1]
            /\ s.draw_area_start[2] < s.draw_area_end[2]

Width(s)  == s.draw_area_end[1] - s.draw_area_start[1]
Height(s) == s.draw_area_end[2] - s.draw_area_start[2]

AtWindowStart(s) == /\ s.draw_column = s.draw_area_start[1]
                    /\ s.draw_row    = s.draw_area_start[2]

\* `op` has returned
Returned(name) == pc = "idle" /\ op.name = name

\* the three commands of an address refresh for cursor (col, row), all accepted
Refresh(col, row) ==
    << Logged(PageAddress(row), TRUE),
       Logged(ColumnAddressLow(col % 16), TRUE),
       Logged(ColumnAddressHigh((col \div 16) % 16), TRUE) >>

\* draw was called on a valid window with the cursor at the window's start
\* and a buffer of k >= 1 whole rows
WholeRowsDraw ==
    /\ op.name = "draw"
    /\ Valid(entry)
    /\ AtWindowStart(entry)
    /\ Len(op.arg) >= 1
    /\ Len(op.arg) % Width(entry) = 0

\* the writes of a draw of k whole rows of buf: row i's bytes, then the refresh
\* for the row that follows it
WholeRowsLog(buf, s) ==
    LET W == Width(s)
        H == Height(s)
        k == Len(buf) \div W
        chunk(i) == << Logged(Data(SubSeq(buf, (i - 1) * W + 1, i * W)), TRUE) >>
                    \o Refresh(s.draw_area_start[1], s.draw_area_start[2] + (i % H))
    IN  [j \in 1..(4 * k) |-> chunk(((j - 1) \div 4) + 1)[((j - 1) % 4) + 1]]

-----------------------------------------------------------------------------
(* C1 *)

\* C1: a draw of k*W bytes (k >= 1) from the start of a valid window of width W
\* and height H, with no transport failure, does not panic and, once returned,
\* has issued exactly k data writes of W bytes each, in buffer order, each
\* followed by one address refresh, and leaves the cursor at
\* (start.col, start.row + (k mod H)).
C1_WholeRows ==
    WholeRowsDraw =>
        /\ pc # "panicked"
        /\ (pc = "idle" /\ result = "ok") =>
              /\ iface.log = WholeRowsLog(op.arg, entry)
              /\ draw_column = entry.draw_area_start[1]
              /\ draw_row = entry.draw_area_start[2]
                              + ((Len(op.arg) \div Width(entry)) % Height(entry))

\* two rows of two bytes into a window two rows high: the cursor is back at start
C1_Witness ==
    /\ WholeRowsDraw
    /\ Returned("draw") /\ result = "ok"
    /\ Width(entry) = 2 /\ Height(entry) = 2 /\ Len(op.arg) = 4
    /\ Len(iface.log) = 8
    /\ AtWindowStart(Self)

-----------------------------------------------------------------------------
(* C2 *)

\* draw was called with a non-empty buffer shorter than count, on a transport
\* that does not fail
ShortBufferDraw ==
    /\ op.name = "draw"
    /\ iface.reliable
    /\ Len(op.arg) >= 1
    /\ Len(op.arg) < entry.draw_area_end[1] - entry.draw_column

\* C2: a draw whose buffer is shorter than count = draw_area_end.col - draw_column
\* ends having transferred the buffer as one data write, the column advanced by
\* the buffer's length, no wrap, no address refresh, and returns success.
C2_ShortBufferOneWrite ==
    (ShortBufferDraw /\ pc # "draw") =>
        /\ pc = "idle" /\ result = "ok"
        /\ iface.log = << Logged(Data(op.arg), TRUE) >>
        /\ draw_column = entry.draw_column + Len(op.arg)
        /\ draw_row = entry.draw_row

-----------------------------------------------------------------------------
(* C3 *)

\* C3: once a valid window is set, whenever an operation has returned (with
\* success or with a transport error) the cursor is inside the window.
C3_CursorInWindow ==
    (pc = "idle" /\ Valid(Self)) =>
        /\ draw_area_start[1] <= draw_column /\ draw_column < draw_area_end[1]
        /\ draw_area_start[2] <= draw_row    /\ draw_row    < draw_area_end[2]

\* a draw that failed in the address refresh of a row wrapped past the last row
C3_Witness ==
    /\ Returned("draw") /\ result = "err"
    /\ Valid(Self)
    /\ iface.log[Len(iface.log)].kind = "cmd"
    /\ entry.draw_row = draw_area_end[2] - 1
    /\ draw_row = draw_area_start[2]
    /\ Height(Self) > 1

-----------------------------------------------------------------------------
(* C4 *)

\* C4: a draw on a transport that does not fail eventually returns success with
\* the whole buffer consumed, whatever state it was called in.
C4_DrawTerminates ==
    (pc = "draw" /\ iface.reliable) ~> (pc = "idle" /\ result = "ok" /\ buffer = <<>>)

-----------------------------------------------------------------------------
(* C5 *)

\* the last four writes of the operation
LastFour == SubSeq(iface.log, Len(iface.log) - 3, Len(iface.log))

\* C5 as stated: a draw of any whole number of rows from the window's start ends
\* with the cursor at the window's start, its last writes being the final data
\* write and one address refresh.
C5_EndsAtTopRow ==
    (WholeRowsDraw /\ pc = "idle" /\ result = "ok") =>
        /\ draw_column = entry.draw_area_start[1]
        /\ draw_row = entry.draw_area_start[2]
        /\ Len(iface.log) >= 4
        /\ LastFour[1].kind = "data"
        /\ SubSeq(LastFour, 2, 4) = Refresh(draw_column, draw_row)

\* C5, amended: a draw of k >= 1 whole rows from the window's start ends with the
\* cursor in the window's first column, in row start.row + (k mod H) (the top
\* row exactly when k is a multiple of H), its last writes being the final data
\* write and one address refresh for that cursor.
C5_EndsAtRowStart ==
    (WholeRowsDraw /\ pc = "idle" /\ result = "ok") =>
        /\ draw_column = entry.draw_area_start[1]
        /\ draw_row = entry.draw_area_start[2]
                        + ((Len(op.arg) \div Width(entry)) % Height(entry))
        /\ Len(iface.log) >= 4
        /\ LastFour[1].kind = "data"
        /\ LastFour[1].args = SubSeq(op.arg, Len(op.arg) - Width(entry) + 1, Len(op.arg))
        /\ SubSeq(LastFour, 2, 4) = Refresh(draw_column, draw_row)

\* one row drawn into a window three rows high, from a column with a high
\* nibble: the cursor ends one row below the top
C5_Witness ==
    /\ WholeRowsDraw
    /\ Returned("draw") /\ result = "ok"
    /\ Height(entry) = 3
    /\ Len(op.arg) = Width(entry)
    /\ draw_column >= 16
    /\ draw_row = draw_area_start[2] + 1

-----------------------------------------------------------------------------
(* C6 *)

\* the table of the rotations' remap bits: <<segment remap, scan direction>>
RemapTable(r) ==
    CASE r = "Rotate0"   -> <<FALSE, FALSE>>
      [] r = "Rotate90"  -> <<FALSE, TRUE>>
      [] r = "Rotate180" -> <<TRUE, TRUE>>
      [] r = "Rotate270" -> <<TRUE, FALSE>>

\* C6: a successful set_rotation(r) issues exactly SegmentRemap(b1) then
\* SetCommonScanDir(b2), with (b1, b2) from the table, and get_rotation()
\* returns r afterwards.
C6_SetRotationWrites ==
    (Returned("set_rotation") /\ result = "ok") =>
        /\ iface.log = << Logged(SegmentRemap(RemapTable(op.arg)[1]), TRUE),
                          Logged(SetCommonScanDir(RemapTable(op.arg)[2]), TRUE) >>
        /\ get_rotation(Self) = op.arg

C6_Witness ==
    /\ Returned("set_rotation") /\ result = "ok"
    /\ op.arg = "Rotate270"
    /\ entry.display_rotation = "Rotate90"
    /\ Len(iface.log) = 2

-----------------------------------------------------------------------------
(* C7 *)

\* what get_dimensions is to return for struct s
DimensionsFor(s) ==
    LET wh == dimensions(get_size(s))
    IN  IF s.display_rotation \in {"Rotate0", "Rotate180"}
        THEN <<wh[1], wh[2]>>
        ELSE <<wh[2], wh[1]>>

\* C7: in every state get_dimensions() is (w, h) under Rotate0/Rotate180 and
\* (h, w) under Rotate90/Rotate270; a call returns that value and changes no
\* field; after set_rotation(r), failed or not, it is the value for r.
C7_Dimensions ==
    /\ get_dimensions(Self) = DimensionsFor(Self)
    /\ op.name = "get_dimensions" => (got = DimensionsFor(entry) /\ Self = entry)
    /\ Returned("set_rotation") =>
          get_dimensions(Self) = DimensionsFor([entry EXCEPT !.display_rotation = op.arg])

\* get_dimensions called after the rotation was changed to a quarter turn
C7_Witness ==
    /\ op.name = "get_dimensions"
    /\ display_rotation = "Rotate270"
    /\ display_size = "Display128x160"
    /\ got = <<160, 128>>

-----------------------------------------------------------------------------
(* C8 *)

\* the number of data writes in a log
RECURSIVE DataWrites(_)
DataWrites(log) ==
    IF log = <<>> THEN 0
    ELSE (IF log[1].kind = "data" THEN 1 ELSE 0) + DataWrites(Tail(log))

\* the cursor row one completed chunk later: the next row, or the window's
\* first row after its last
RowAfter(s, row) ==
    IF row + 1 >= s.draw_area_end[2] THEN s.draw_area_start[2] ELSE row + 1

RECURSIVE RowAfterChunks(_, _, _)
RowAfterChunks(s, row, n) ==
    IF n = 0 THEN row ELSE RowAfterChunks(s, RowAfter(s, row), n - 1)

\* C8: a draw that returned a failure issued no write after the failed one and
\* left the window as it was; when the failed write is the Nth data write, the
\* cursor is where N-1 completed chunks put it.
C8_DrawFailure ==
    (Returned("draw") /\ result = "err") =>
        LET n == Len(iface.log)
        IN  /\ n >= 1
            /\ ~iface.log[n].ok
            /\ \A i \in 1..(n - 1) : iface.log[i].ok
            /\ draw_area_start = entry.draw_area_start
            /\ draw_area_end = entry.draw_area_end
            /\ iface.log[n].kind = "data" =>
                  /\ draw_row = RowAfterChunks(entry, entry.draw_row, DataWrites(iface.log) - 1)
                  /\ draw_column = IF DataWrites(iface.log) = 1
                                   THEN entry.draw_column
                                   ELSE entry.draw_area_start[1]

\* the second data write of a draw fails: one chunk has advanced the cursor
C8_Witness ==
    /\ Returned("draw") /\ result = "err"
    /\ Valid(entry)
    /\ Len(iface.log) = 5
    /\ iface.log[5].kind = "data"
    /\ draw_row = entry.draw_row + 1

-----------------------------------------------------------------------------
(* C9 *)

WritingOps == {"init_column_mode", "set_draw_area", "draw", "set_rotation",
               "display_on", "set_contrast"}

\* C9: no operation writes to the transport after a write of it has failed, and
\* an operation returns the failure exactly when its last write failed.
C9_FirstFailureEnds ==
    op.name \in WritingOps =>
        LET n == Len(iface.log)
        IN  /\ \A i \in 1..(n - 1) : iface.log[i].ok
            /\ pc = "idle" => (result = "err" <=> (n >= 1 /\ ~iface.log[n].ok))
            /\ pc # "idle" => \A i \in 1..n : iface.log[i].ok

\* init_column_mode fails inside the set_rotation it calls
C9_Witness ==
    /\ Returned("init_column_mode") /\ result = "err"
    /\ Len(iface.log) = 3
    /\ iface.log[3].name = "SegmentRemap"

-----------------------------------------------------------------------------
(* C10 *)

\* C10: a draw of an empty buffer writes nothing, changes no field, can only
\* return, and returns success.
C10_EmptyDraw ==
    (op.name = "draw" /\ op.arg = <<>>) =>
        /\ iface.log = <<>>
        /\ Self = entry
        /\ pc \in {"draw", "idle"}
        /\ pc = "draw" => (ENABLED DrawReturn /\ ~ENABLED DrawIter)
        /\ pc = "idle" => result = "ok"

\* an empty draw returned on a struct whose window was never set
C10_Witness ==
    /\ Returned("draw") /\ op.arg = <<>> /\ result = "ok"
    /\ draw_area_end = <<0, 0>>

-----------------------------------------------------------------------------
(* C11 *)

\* the names of the writes of a log, in order
Names(log) == [i \in 1..Len(log) |-> log[i].name]

\* C11: a successful init_column_mode issues exactly DisplayClockDiv,
\* DisplayResolution(display_size), SegmentRemap and SetCommonScanDir for the
\* configured rotation, PreChargePeriod, DisplayOn(true), in this order; and
\* whenever init_column_mode has issued DisplayOn, it is its sixth write and
\* the five before it were accepted.
C11_InitSequence ==
    op.name = "init_column_mode" =>
        /\ (pc = "idle" /\ result = "ok") =>
              /\ Names(iface.log) = << "DisplayClockDiv", "DisplayResolution", "SegmentRemap",
                                       "SetCommonScanDir", "PreChargePeriod", "DisplayOn" >>
              /\ \A i \in 1..6 : iface.log[i].ok /\ iface.log[i].kind = "cmd"
              /\ iface.log[2].args = dimensions(entry.display_size)
              /\ iface.log[3].args = << Bit(RemapTable(entry.display_rotation)[1]) >>
              /\ iface.log[4].args = << Bit(RemapTable(entry.display_rotation)[2]) >>
              /\ iface.log[6].args = << Bit(TRUE) >>
        /\ \A i \in 1..Len(iface.log) :
              iface.log[i].name = "DisplayOn" =>
                  (i = 6 /\ \A j \in 1..5 : iface.log[j].ok)

C11_Witness ==
    /\ Returned("init_column_mode") /\ result = "ok"
    /\ display_rotation = "Rotate90"
    /\ Len(iface.log) = 6

-----------------------------------------------------------------------------
(* C12 *)

\* set_draw_area(start, end) has returned success: the window is (start, end),
\* the cursor is start and the writes are the address refresh for start
SetDrawAreaDone ==
    (Returned("set_draw_area") /\ result = "ok") =>
        /\ draw_area_start = op.arg[1]
        /\ draw_area_end = op.arg[2]
        /\ draw_column = op.arg[1][1]
        /\ draw_row = op.arg[1][2]
        /\ iface.log = Refresh(op.arg[1][1], op.arg[1][2])

\* a draw called next is entered with the cursor at start, and the first thing it
\* sends is data
NextDrawAtStart ==
    (Returned("set_draw_area") /\ result = "ok" /\ op'.name = "draw") =>
        /\ entry'.draw_column = op.arg[1][1]
        /\ entry'.draw_row = op.arg[1][2]
        /\ iface'.log = <<>>

\* C12: a successful set_draw_area(start, end) stores the window, puts the cursor
\* at start whatever it was, and issues exactly PageAddress(start.row),
\* ColumnAddressLow(start.col mod 16), ColumnAddressHigh(start.col div 16 mod 16);
\* the next draw starts at start.
C12_SetDrawArea == [](SetDrawAreaDone) /\ [][NextDrawAtStart]_vars

\* the window moved to a start with both nibbles set, from a cursor elsewhere
C12_Witness ==
    /\ Returned("set_draw_area") /\ result = "ok"
    /\ op.arg[1][1] = 254
    /\ entry.draw_column # draw_column
    /\ entry.draw_row # draw_row
    /\ Valid(entry)

-----------------------------------------------------------------------------
(* C13 *)

\* struct s turned to rotation r
WithRotation(s, r) == [s EXCEPT !.display_rotation = r]

\* set_draw_area does the same on the struct at entry and on its turned copies,
\* and what it does is what happened
SetDrawAreaIgnoresRotation ==
    Returned("set_draw_area") =>
        /\ \A r \in Rotations, io \in Transports(3) :
              LET a == set_draw_area(entry, io, op.arg[1], op.arg[2])
                  b == set_draw_area(WithRotation(entry, r), io, op.arg[1], op.arg[2])
              IN  a.io = b.io /\ b.self = WithRotation(a.self, r)
        /\ \E io \in Transports(3) :
              LET a == set_draw_area(entry, io, op.arg[1], op.arg[2])
              IN  a.self = Self /\ a.io = iface

\* the next iteration of draw does the same on the struct and on its turned copies
DrawIterIgnoresRotation ==
    (pc = "draw" /\ buffer # <<>>) =>
        \A r \in Rotations :
            LET a == draw_iter(Self, iface, buffer)
                b == draw_iter(WithRotation(Self, r), iface, buffer)
            IN  /\ a.io = b.io
                /\ a.buffer = b.buffer
                /\ a.next = b.next
                /\ b.self = WithRotation(a.self, r)

\* C13: from two structs that differ only in display_rotation, each
\* set_draw_area and each iteration of draw issues the same writes and leaves
\* the same cursor and window; so the same calls give the same writes and the
\* same cursor and window after every call.
C13_RotationIgnored == SetDrawAreaIgnoresRotation /\ DrawIterIgnoresRotation

\* a quarter-turned display in the middle of a draw over a valid window
C13_Witness ==
    /\ pc = "draw" /\ buffer # <<>>
    /\ display_rotation = "Rotate90"
    /\ Valid(Self)
    /\ Len(iface.log) >= 4

-----------------------------------------------------------------------------
(* C14 *)

\* C14: display_on(on) and set_contrast(c) each issue exactly one command,
\* DisplayOn(on) and Contrast(c), and change no field, whether the write is
\* accepted or fails.
C14_PassThrough ==
    /\ Returned("display_on") =>
          /\ Len(iface.log) = 1
          /\ iface.log[1] = Logged(DisplayOnCmd(op.arg), result = "ok")
          /\ Self = entry
    /\ Returned("set_contrast") =>
          /\ Len(iface.log) = 1
          /\ iface.log[1] = Logged(Contrast(op.arg), result = "ok")
          /\ Self = entry

\* the display was turned off over a window that had been set, and the write failed
C14_Witness ==
    /\ Returned("display_on") /\ op.arg = FALSE /\ result = "err"
    /\ Valid(Self)

-----------------------------------------------------------------------------
(* C15 *)

\* C15: no step changes display_size, and only a call of set_rotation changes
\* display_rotation.
C15_SizeAndRotationFrame ==
    [][ /\ display_size' = display_size
        /\ display_rotation' # display_rotation =>
              (pc = "idle" /\ op'.name = "set_rotation") ]_vars

\* init_column_mode has re-applied a rotation that set_rotation had stored
C15_Witness ==
    /\ Returned("init_column_mode") /\ result = "ok"
    /\ entry.display_rotation = "Rotate180"
    /\ display_rotation = "Rotate180"
    /\ iface.log[3].args = <<1>>

-----------------------------------------------------------------------------
(* C17 *)

\* outside set_draw_area the window is the one the operation was entered with;
\* a draw on a transport that does not fail returns no error
WindowFrame ==
    /\ op.name # "set_draw_area" =>
          /\ draw_area_start = entry.draw_area_start
          /\ draw_area_end = entry.draw_area_end
    /\ (Returned("draw") /\ iface.reliable) => result = "ok"

\* a chunk sent from the last row of a valid window puts the cursor at the
\* window's start
WrapToStart ==
    ( /\ pc = "draw" /\ Valid(Self)
      /\ draw_row = draw_area_end[2] - 1
      /\ Len(iface'.log) > Len(iface.log)
      /\ iface'.log[Len(iface.log) + 1].ok )
    => /\ draw_column' = draw_area_start[1]
       /\ draw_row' = draw_area_start[2]
       /\ pc' # "panicked"

\* C17: only set_draw_area changes draw_area_start and draw_area_end; a draw of
\* any length leaves them unchanged, gets no error for running past the
\* window's last row, and goes on at (start.col, start.row) after that row.
C17_WindowWraps == [](WindowFrame) /\ [][WrapToStart]_vars

\* three rows drawn into a window two rows high: the third went to the top row
C17_Witness ==
    /\ WholeRowsDraw
    /\ Returned("draw") /\ result = "ok"
    /\ Height(entry) = 2
    /\ Len(op.arg) = 3 * Width(entry)
    /\ draw_row = draw_area_start[2] + 1
    /\ iface.log[9].kind = "data"

-----------------------------------------------------------------------------
(* The controller's pointer, as the properties model it: (page, column), set   *)
(* by PageAddress, ColumnAddressLow and ColumnAddressHigh (column = low +      *)
(* 16*high) and moved one column on by every data byte.  A write the transport *)
(* did not accept has no effect.                                               *)

HwStep(hw, e) ==
    IF ~e.ok THEN hw
    ELSE CASE e.name = "PageAddress"       -> <<e.args[1], hw[2]>>
           [] e.name = "ColumnAddressLow"  -> <<hw[1], (hw[2] \div 16) * 16 + e.args[1]>>
           [] e.name = "ColumnAddressHigh" -> <<hw[1], e.args[1] * 16 + (hw[2] % 16)>>
           [] e.kind = "data"              -> <<hw[1], hw[2] + Len(e.args)>>
           [] OTHER                        -> hw

\* the pointer after the writes of log, from hw
RECURSIVE HwRun(_, _)
HwRun(hw, log) == IF log = <<>> THEN hw ELSE HwRun(HwStep(hw, log[1]), Tail(log))

\* where the bytes of log land: <<page, column, byte>> for each data byte, in order
RECURSIVE Placed(_, _)
Placed(hw, log) ==
    IF log = <<>> THEN <<>>
    ELSE LET e == log[1]
             here == IF e.kind = "data" /\ e.ok
                     THEN [i \in 1..Len(e.args) |-> <<hw[1], hw[2] + i - 1, e.args[i]>>]
                     ELSE <<>>
         IN  here \o Placed(HwStep(hw, e), Tail(log))

Cursor(s) == <<s.draw_row, s.draw_column>>

-----------------------------------------------------------------------------
(* C18 *)

ReliableTransport == CHOOSE io \in Transports(0) : TRUE

\* C18: under a valid window and a transport that does not fail, for every
\* buffer a ++ b, draw(a) then draw(b) and the single draw(a ++ b) all return
\* success, leave the same cursor, and write the bytes of a ++ b, in order, to
\* the same (row, column) positions.
C18_SplitDraw ==
    (pc = "idle" /\ Valid(Self)) =>
        \A c \in Buffers : \A i \in 0..Len(c) :
            LET a     == SubSeq(c, 1, i)
                b     == SubSeq(c, i + 1, Len(c))
                whole == draw(Self, ReliableTransport, c)
                one   == draw(Self, ReliableTransport, a)
                two   == draw(one.self, ReliableTransport, b)
            IN  /\ whole.status = "ok" /\ one.status = "ok" /\ two.status = "ok"
                /\ Cursor(two.self) = Cursor(whole.self)
                /\ Placed(Cursor(Self), one.io.log \o two.io.log)
                      = Placed(Cursor(Self), whole.io.log)
                /\ [j \in 1..Len(c) |-> Placed(Cursor(Self), whole.io.log)[j][3]] = c

-----------------------------------------------------------------------------
(* C19 *)

\* C19: whenever draw's loop body is about to run, its u8 arithmetic is exact:
\* draw_area_end.col - draw_column is not negative, draw_column + count and
\* draw_row + 1 do not exceed 255; and every coordinate the struct holds is a u8.
C19_NoOverflow ==
    /\ \A x \in {draw_column, draw_row, draw_area_start[1], draw_area_start[2],
                 draw_area_end[1], draw_area_end[2]} : x \in 0..(U8 - 1)
    /\ (pc = "draw" /\ buffer # <<>>) =>
          LET count == SubU8(draw_area_end[1], draw_column)
          IN  /\ draw_area_end[1] - draw_column >= 0
              /\ count = draw_area_end[1] - draw_column
              /\ draw_column + count <= U8 - 1
              /\ AddU8(draw_column, count) = draw_column + count
              /\ draw_row + 1 <= U8 - 1
              /\ AddU8(draw_row, 1) = draw_row + 1

\* in the middle of a draw, in the last row of a window that ends at 255 on both
\* axes
C19_Witness ==
    /\ pc = "draw" /\ buffer # <<>>
    /\ draw_area_end = <<255, 255>>
    /\ draw_row = 254
    /\ Len(iface.log) >= 4

-----------------------------------------------------------------------------
(* C20 *)

\* C20: after set_rotation(r) returned a failure, get_rotation() is r and
\* get_dimensions() is the value for r; after set_draw_area(start, end) returned
\* a failure, the window is (start, end) and the cursor is start.
C20_StoredBeforeWrites ==
    /\ (Returned("set_rotation") /\ result = "err") =>
          /\ get_rotation(Self) = op.arg
          /\ get_dimensions(Self) = DimensionsFor([entry EXCEPT !.display_rotation = op.arg])
    /\ (Returned("set_draw_area") /\ result = "err") =>
          /\ draw_area_start = op.arg[1]
          /\ draw_area_end = op.arg[2]
          /\ Cursor(Self) = <<op.arg[1][2], op.arg[1][1]>>

\* the first write of a quarter turn failed: the reported dimensions are swapped
\* all the same
C20_Witness ==
    /\ Returned("set_rotation") /\ result = "err"
    /\ op.arg = "Rotate90"
    /\ entry.display_rotation = "Rotate0"
    /\ Len(iface.log) = 1
    /\ get_dimensions(Self) # get_dimensions(entry)

-----------------------------------------------------------------------------
(* C16 *)

\* pointers the controller may hold before an operation, whatever went before
HwSamples == {<<0, 0>>, <<7, 37>>, <<255, 255>>}

\* C16 as stated, on the runs that go on from a successful set_draw_area (where
\* the pointer is the cursor whatever it was before) with one more
\* set_draw_area on any transport and then a draw on a transport that does not
\* fail: after the successful set_draw_area and after the successful draw the
\* pointer is the cursor, and the draw's first data write starts at the cursor.
C16_PointerIsCursor ==
    (Returned("set_draw_area") /\ result = "ok") =>
        \A w \in Windows, io \in Transports(3), buf \in Buffers :
            LET p0 == HwRun(<<0, 0>>, iface.log)
                a  == set_draw_area(Self, io, w[1], w[2])
                p1 == HwRun(p0, a.io.log)
                d  == draw(a.self, ReliableTransport, buf)
            IN  /\ p0 = Cursor(Self)
                /\ ~a.io.err => p1 = Cursor(a.self)
                /\ d.status = "ok" => HwRun(p1, d.io.log) = Cursor(d.self)
                /\ d.io.log # <<>> => p1 = Cursor(a.self)

\* C16, amended: after every successful set_draw_area, and after every
\* successful draw of a non-empty buffer under a valid window, the pointer is
\* (draw_row, draw_column), whatever it was before; and in a draw under a valid
\* window that was entered with the pointer at the cursor, the pointer is the
\* cursor each time the loop body is entered, so that every data write starts
\* at the cursor held just before it.
C16_PointerFollowsCursor ==
    /\ (Returned("set_draw_area") /\ result = "ok") =>
          \A hw0 \in HwSamples : HwRun(hw0, iface.log) = Cursor(Self)
    /\ (Returned("draw") /\ result = "ok" /\ Valid(entry) /\ op.arg # <<>>) =>
          \A hw0 \in HwSamples : HwRun(hw0, iface.log) = Cursor(Self)
    /\ (op.name = "draw" /\ pc = "draw" /\ Valid(entry)) =>
          HwRun(Cursor(entry), iface.log) = Cursor(Self)

\* a draw has moved the cursor down a row, in a window whose first column has
\* both nibbles set
C16_Witness ==
    /\ Returned("draw") /\ result = "ok" /\ Valid(entry)
    /\ Len(iface.log) = 8
    /\ draw_column = 254
    /\ draw_row # entry.draw_row
    /\ HwRun(<<7, 37>>, iface.log) = <<draw_row, 254>>

=============================================================================
